---------------------------- MODULE Spec2Model ----------------------------
(***************************************************************************)
(* Model of the NFL game-total projection program (src/model.py).          *)
(*                                                                         *)
(* Python floats are modelled as exact rationals <<n, d>> in lowest terms  *)
(* (d > 0), so every "exactly" below is exact real arithmetic; IEEE-754    *)
(* rounding is not modelled.  Python's None is the pair <<0, 0>> and a     *)
(* float NaN the pair <<1, 0>>: neither is a rational (d = 0).             *)
(* A Python dict is a TLA+ function whose DOMAIN is its set of keys.       *)
(***************************************************************************)
EXTENDS Integers, Sequences, FiniteSets, TLC

VARIABLES fn, args, ret, pc,
          files, teams, inp, projA, projB, out, gpc

vars == <<fn, args, ret, pc, files, teams, inp, projA, projB, out, gpc>>

fnVars == <<fn, args, ret, pc>>
gameVars == <<files, teams, inp, projA, projB, out, gpc>>

-----------------------------------------------------------------------------
(* Exact rational arithmetic standing for Python float arithmetic.         *)

Abs(x) == IF x < 0 THEN -x ELSE x

RECURSIVE GCD(_, _)
GCD(a, b) == IF b = 0 THEN a ELSE GCD(b, a % b)

R(n, d) == LET g == GCD(Abs(n), d) IN <<n \div g, d \div g>>

NoneV == <<0, 0>>
NaN == <<1, 0>>
IsNum(x) == x[2] > 0

Z(n) == <<n, 1>>
RNeg(a) == <<-a[1], a[2]>>
RAdd(a, b) == LET g == GCD(a[2], b[2])
                  l == (a[2] \div g) * b[2]
              IN  R(a[1] * (l \div a[2]) + b[1] * (l \div b[2]), l)
RSub(a, b) == RAdd(a, RNeg(b))
RMul(a, b) == LET g1 == GCD(Abs(a[1]), b[2])
                  g2 == GCD(Abs(b[1]), a[2])
              IN  <<(a[1] \div g1) * (b[1] \div g2), (a[2] \div g2) * (b[2] \div g1)>>
RInv(a) == IF a[1] < 0 THEN <<-a[2], -a[1]>> ELSE <<a[2], a[1]>>
RDiv(a, b) == RMul(a, RInv(b))
RLe(a, b) == RSub(a, b)[1] <= 0
RLt(a, b) == RSub(a, b)[1] < 0
RGe(a, b) == RLe(b, a)
RGt(a, b) == RLt(b, a)
RMax(a, b) == IF RGe(a, b) THEN a ELSE b
RMin(a, b) == IF RLe(a, b) THEN a ELSE b
RAbs(a) == <<Abs(a[1]), a[2]>>

-----------------------------------------------------------------------------
(* Blending functions.                                                     *)

calculate_net_epa(off_epa, def_epa_allowed) ==
    RDiv(RAdd(RMul(off_epa, R(16, 10)), RMul(def_epa_allowed, Z(1))), R(26, 10))

(* faulty variant: the bucket thresholds taken as strict *)
calculate_weighted_epa_strict(season_epa, last_5_epa, games_played) ==
    IF games_played < 5 THEN season_epa
    ELSE IF games_played < 10
         THEN RAdd(RMul(season_epa, R(65, 100)), RMul(last_5_epa, R(35, 100)))
    ELSE IF games_played < 14
         THEN RAdd(RMul(season_epa, R(50, 100)), RMul(last_5_epa, R(50, 100)))
    ELSE RAdd(RMul(season_epa, R(40, 100)), RMul(last_5_epa, R(60, 100)))

calculate_weighted_epa(season_epa, last_5_epa, games_played) ==
    IF games_played <= 5 THEN season_epa
    ELSE IF games_played <= 10
         THEN RAdd(RMul(season_epa, R(65, 100)), RMul(last_5_epa, R(35, 100)))
    ELSE IF games_played <= 14
         THEN RAdd(RMul(season_epa, R(50, 100)), RMul(last_5_epa, R(50, 100)))
    ELSE RAdd(RMul(season_epa, R(40, 100)), RMul(last_5_epa, R(60, 100)))

(* faulty variant: the pass rate capped here, before the injury adjustments *)
calculate_expected_pass_rate_capped(team_pass_rate, proe, def_pass_rate_against, league_avg_pass_rate, spread) ==
    LET base_expected == RAdd(RMul(RAdd(team_pass_rate, proe), R(6, 10)),
                              RMul(RAdd(team_pass_rate,
                                        RSub(def_pass_rate_against, league_avg_pass_rate)),
                                   R(4, 10)))
        spread_adjustment ==
            IF RGe(spread, Z(7)) THEN R(5, 100)
            ELSE IF RGe(spread, Z(4)) THEN R(3, 100)
            ELSE IF RLe(spread, Z(-7)) THEN R(-4, 100)
            ELSE IF RLe(spread, Z(-4)) THEN R(-2, 100)
            ELSE Z(0)
    IN  RMax(R(35, 100), RMin(R(75, 100), RAdd(base_expected, spread_adjustment)))

calculate_expected_pass_rate(team_pass_rate, proe, def_pass_rate_against, league_avg_pass_rate, spread) ==
    LET team_tendency == RAdd(team_pass_rate, proe)
        defense_influence == RSub(def_pass_rate_against, league_avg_pass_rate)
        base_expected == RAdd(RMul(team_tendency, R(6, 10)),
                              RMul(RAdd(team_pass_rate, defense_influence), R(4, 10)))
        spread_adjustment ==
            IF RGe(spread, Z(7)) THEN R(5, 100)
            ELSE IF RGe(spread, Z(4)) THEN R(3, 100)
            ELSE IF RLe(spread, Z(-7)) THEN R(-4, 100)
            ELSE IF RLe(spread, Z(-4)) THEN R(-2, 100)
            ELSE Z(0)
    IN  RAdd(base_expected, spread_adjustment)

calculate_expected_plays(team_pace, opp_pace, spread) ==
    LET base_plays == RDiv(RAdd(team_pace, opp_pace), Z(2))
        pace_adjustment ==
            IF RLe(RAbs(spread), Z(3)) THEN Z(3)
            ELSE IF RGe(RAbs(spread), Z(10)) THEN Z(-4)
            ELSE Z(0)
    IN  RAdd(base_plays, pace_adjustment)

precip_impact ==
    [heavy_rain |-> Z(3), light_snow |-> Z(2), heavy_snow |-> Z(4), blizzard |-> Z(8)]

(* faulty variant: the wind bands tested with separate ifs, so they accumulate *)
calculate_weather_adjustment_cumulative(wind_mph, temp_f, precipitation) ==
    LET a1 == RAdd(IF RGe(wind_mph, Z(20)) THEN Z(6) ELSE Z(0),
                   RAdd(IF RGe(wind_mph, Z(15)) THEN Z(3) ELSE Z(0),
                        IF RGe(wind_mph, Z(10)) THEN Z(1) ELSE Z(0)))
        a2 == IF RLt(temp_f, Z(0)) THEN RAdd(a1, Z(2)) ELSE a1
    IN  RAdd(a2, IF precipitation \in DOMAIN precip_impact
                 THEN precip_impact[precipitation] ELSE Z(0))

calculate_weather_adjustment(wind_mph, temp_f, precipitation) ==
    LET a1 == IF RGe(wind_mph, Z(20)) THEN Z(6)
              ELSE IF RGe(wind_mph, Z(15)) THEN Z(3)
              ELSE IF RGe(wind_mph, Z(10)) THEN Z(1)
              ELSE Z(0)
        a2 == IF RLt(temp_f, Z(0)) THEN RAdd(a1, Z(2)) ELSE a1
    IN  RAdd(a2, IF precipitation \in DOMAIN precip_impact
                 THEN precip_impact[precipitation] ELSE Z(0))

calculate_success_rate_adjustment(success_rate, league_avg, weight) ==
    LET differential == RSub(success_rate, league_avg)
    IN  RMul(differential, weight)

-----------------------------------------------------------------------------
(* Value normalization.  A Python str is a sequence of one-character       *)
(* strings; a raw value is [t, n, s]: t = "None", a number n (t = "num")   *)
(* or a str s (t = "str").                                                 *)

ValueError == <<-1, 0>>

PyNone == [t |-> "None", n |-> NoneV, s |-> <<>>]
PyNum(x) == [t |-> "num", n |-> x, s |-> <<>>]
PyStr(x) == [t |-> "str", n |-> NoneV, s |-> x]

Whitespace == {" "}
Digits == {"0", "1", "2", "3", "4", "5", "6", "7", "8", "9"}
DigitVal(c) ==
    CASE c = "0" -> 0 [] c = "1" -> 1 [] c = "2" -> 2 [] c = "3" -> 3 [] c = "4" -> 4
      [] c = "5" -> 5 [] c = "6" -> 6 [] c = "7" -> 7 [] c = "8" -> 8 [] c = "9" -> 9

RECURSIVE LStrip(_)
LStrip(s) == IF s # <<>> /\ Head(s) \in Whitespace THEN LStrip(Tail(s)) ELSE s
RECURSIVE RStrip(_)
RStrip(s) == IF s # <<>> /\ s[Len(s)] \in Whitespace
             THEN RStrip(SubSeq(s, 1, Len(s) - 1)) ELSE s
Strip(s) == RStrip(LStrip(s))

LowerChar(c) ==
    CASE c = "N" -> "n" [] c = "A" -> "a" [] c = "O" -> "o" [] c = "E" -> "e"
      [] OTHER -> c
Lower(s) == [i \in 1..Len(s) |-> LowerChar(s[i])]

Contains(s, c) == \E i \in 1..Len(s) : s[i] = c
Replace(s, c) == SelectSeq(s, LAMBDA x : x # c)

RECURSIVE Pow10(_)
Pow10(k) == IF k = 0 THEN 1 ELSE 10 * Pow10(k - 1)
RECURSIVE DigitsValue(_)
DigitsValue(s) == IF s = <<>> THEN 0
                  ELSE 10 * DigitsValue(SubSeq(s, 1, Len(s) - 1)) + DigitVal(s[Len(s)])

(* float(str) on the strings the model feeds it: optional surrounding      *)
(* whitespace, optional sign, then "nan" or decimal digits with at most    *)
(* one point and at least one digit; anything else raises ValueError.      *)
float(str) ==
    LET t == Strip(str)
        signed == t # <<>> /\ Head(t) \in {"-", "+"}
        u == IF signed THEN Tail(t) ELSE t
        sgn == IF signed /\ Head(t) = "-" THEN -1 ELSE 1
        dots == {i \in 1..Len(u) : u[i] = "."}
        dot == IF dots = {} THEN Len(u) + 1 ELSE CHOOSE i \in dots : TRUE
        ip == SubSeq(u, 1, dot - 1)
        fp == SubSeq(u, dot + 1, Len(u))
    IN  IF Lower(u) = <<"n", "a", "n">> THEN NaN
        ELSE IF \/ Cardinality(dots) > 1
                \/ \E i \in 1..Len(u) : u[i] \notin Digits \cup {"."}
                \/ Len(ip) + Len(fp) = 0
             THEN ValueError
        ELSE R(sgn * (DigitsValue(ip) * Pow10(Len(fp)) + DigitsValue(fp)), Pow10(Len(fp)))

(* x / 100.0 and x > 1.0 on floats, NaN included *)
FDiv100(x) == IF IsNum(x) THEN RDiv(x, Z(100)) ELSE x
FGt1(x) == IsNum(x) /\ RGt(x, Z(1))

Sentinels == {<<"n", "a">>, <<"n", "/", "a">>, <<"-">>, <<"n", "o", "n", "e">>}

parse_value(value, is_percentage) ==
    IF value.t = "None" \/ (value.t = "str" /\ value.s = <<>>) THEN Z(0)
    ELSE IF value.t = "num" THEN value.n
    ELSE LET v == Strip(value.s)
         IN  IF v = <<>> \/ Lower(v) \in Sentinels THEN Z(0)
             ELSE IF Contains(v, "%")
                  THEN LET f == float(Strip(Replace(v, "%")))
                       IN  IF f = ValueError THEN Z(0) ELSE FDiv100(f)
             ELSE LET result == float(v)
                  IN  IF result = ValueError THEN Z(0)
                      ELSE IF is_percentage /\ FGt1(result) THEN FDiv100(result)
                      ELSE result

-----------------------------------------------------------------------------
(* Single-team score projection.  The argument record a has one field per  *)
(* parameter of project_team_score; an override that is not provided is    *)
(* NoneV.  The result is the returned dict plus exc: "none", or the        *)
(* exception the call raises.                                              *)

Get(d, k, default) == IF k \in DOMAIN d THEN d[k] ELSE default

TeamKeys == {"pass_rate", "proe",
             "season_pass_epa", "last5_pass_epa", "season_run_epa", "last5_run_epa",
             "season_pass_success", "last5_pass_success",
             "season_run_success", "last5_run_success"}
OppKeys == {"def_season_pass_epa", "def_last5_pass_epa",
            "def_season_run_epa", "def_last5_run_epa"}

home_adj == [weak |-> R(1, 100), average |-> R(15, 1000), strong |-> R(25, 1000)]

(* faulty variant: the zero-pace safety check left out *)
ResolvePace_NoSafetyCheck(override, stats) ==
    IF override # NoneV THEN override ELSE Get(stats, "pace", R(65, 1))

(* lines 310-319: overrides, record fields, defaults, zero-pace safety     *)
ResolvePace(override, stats) ==
    LET p == IF override # NoneV THEN override ELSE Get(stats, "pace", R(65, 1))
    IN  IF p = Z(0) \/ p = NoneV THEN Z(62) ELSE p

ResolveDefPassRate(override, stats) ==
    IF override # NoneV THEN override ELSE Get(stats, "def_pass_rate_against", R(60, 100))

Raises(a) ==
    IF ~(TeamKeys \subseteq DOMAIN a.team_stats) \/ ~(OppKeys \subseteq DOMAIN a.opp_stats)
    THEN "KeyError"
    ELSE IF ResolveDefPassRate(a.def_pass_rate_override, a.opp_stats) = NoneV
    THEN "TypeError"
    ELSE IF a.home_strength \notin DOMAIN home_adj THEN "KeyError"
    ELSE "none"

(* faulty variant: the defensive EPA weighted by the team's games played *)
Weighted_DefenseByTeamGames(a) ==
    [team_pace |-> ResolvePace(a.pace_override, a.team_stats),
     opp_pace |-> ResolvePace(a.opp_pace_override, a.opp_stats),
     def_pass_rate_against |-> ResolveDefPassRate(a.def_pass_rate_override, a.opp_stats),
     o_pass |-> calculate_weighted_epa(a.team_stats["season_pass_epa"],
                    a.team_stats["last5_pass_epa"], a.team_games_played),
     o_run |-> calculate_weighted_epa(a.team_stats["season_run_epa"],
                    a.team_stats["last5_run_epa"], a.team_games_played),
     d_pass |-> calculate_weighted_epa(a.opp_stats["def_season_pass_epa"],
                    a.opp_stats["def_last5_pass_epa"], a.team_games_played),
     d_run |-> calculate_weighted_epa(a.opp_stats["def_season_run_epa"],
                    a.opp_stats["def_last5_run_epa"], a.team_games_played),
     pass_success |-> calculate_weighted_epa(a.team_stats["season_pass_success"],
                    a.team_stats["last5_pass_success"], a.team_games_played),
     run_success |-> calculate_weighted_epa(a.team_stats["season_run_success"],
                    a.team_stats["last5_run_success"], a.team_games_played),
     expected_pass_rate |-> calculate_expected_pass_rate(a.team_stats["pass_rate"],
                    a.team_stats["proe"],
                    ResolveDefPassRate(a.def_pass_rate_override, a.opp_stats),
                    a.league_avg_pass_rate, a.spread),
     expected_plays |-> calculate_expected_plays(ResolvePace(a.pace_override, a.team_stats),
                    ResolvePace(a.opp_pace_override, a.opp_stats), a.spread)]

(* lines 310-345: resolved paces, recency-weighted statistics, expected   *)
(* pass rate and plays before any adjustment                              *)
Weighted(a) ==
    [team_pace |-> ResolvePace(a.pace_override, a.team_stats),
     opp_pace |-> ResolvePace(a.opp_pace_override, a.opp_stats),
     def_pass_rate_against |-> ResolveDefPassRate(a.def_pass_rate_override, a.opp_stats),
     o_pass |-> calculate_weighted_epa(a.team_stats["season_pass_epa"],
                    a.team_stats["last5_pass_epa"], a.team_games_played),
     o_run |-> calculate_weighted_epa(a.team_stats["season_run_epa"],
                    a.team_stats["last5_run_epa"], a.team_games_played),
     d_pass |-> calculate_weighted_epa(a.opp_stats["def_season_pass_epa"],
                    a.opp_stats["def_last5_pass_epa"], a.opp_games_played),
     d_run |-> calculate_weighted_epa(a.opp_stats["def_season_run_epa"],
                    a.opp_stats["def_last5_run_epa"], a.opp_games_played),
     pass_success |-> calculate_weighted_epa(a.team_stats["season_pass_success"],
                    a.team_stats["last5_pass_success"], a.team_games_played),
     run_success |-> calculate_weighted_epa(a.team_stats["season_run_success"],
                    a.team_stats["last5_run_success"], a.team_games_played),
     expected_pass_rate |-> calculate_expected_pass_rate(a.team_stats["pass_rate"],
                    a.team_stats["proe"],
                    ResolveDefPassRate(a.def_pass_rate_override, a.opp_stats),
                    a.league_avg_pass_rate, a.spread),
     expected_plays |-> calculate_expected_plays(ResolvePace(a.pace_override, a.team_stats),
                    ResolvePace(a.opp_pace_override, a.opp_stats), a.spread)]

(* faulty variant: the play count left as it is when the quarterback is out *)
QbOut_PlaysKept(a, f) ==
    IF a.qb_out
    THEN [f EXCEPT !.o_pass = RSub(@, R(20, 100)),
                   !.expected_pass_rate = RSub(@, R(7, 100)),
                   !.pass_success = RSub(@, R(5, 100))]
    ELSE f

(* lines 348-352: if qb_out *)
QbOut(a, f) ==
    IF a.qb_out
    THEN [f EXCEPT !.o_pass = RSub(@, R(20, 100)),
                   !.expected_pass_rate = RSub(@, R(7, 100)),
                   !.expected_plays = RSub(@, Z(3)),
                   !.pass_success = RSub(@, R(5, 100))]
    ELSE f

(* lines 354-356: elite receivers out *)
EliteWrOut(a, f) ==
    [f EXCEPT !.o_pass = RSub(@, RMul(Z(a.elite_wr_out), R(6, 100))),
              !.expected_pass_rate = RSub(@, RMul(Z(a.elite_wr_out), R(2, 100))),
              !.pass_success = RSub(@, RMul(Z(a.elite_wr_out), R(2, 100)))]

(* faulty variant: the extra offensive-line penalty taken per lineman *)
OlMissing_PerLineman(a, f) ==
    IF a.ol_missing >= 2
    THEN [f EXCEPT !.o_pass = RSub(@, RMul(Z(a.ol_missing), R(2, 100))),
                   !.expected_pass_rate = RSub(@, RMul(Z(a.ol_missing - 1), R(2, 100))),
                   !.pass_success = RSub(@, RMul(Z(a.ol_missing - 1), R(3, 100)))]
    ELSE [f EXCEPT !.o_pass = RSub(@, RMul(Z(a.ol_missing), R(2, 100)))]

(* lines 358-361: offensive line missing *)
OlMissing(a, f) ==
    IF a.ol_missing >= 2
    THEN [f EXCEPT !.o_pass = RSub(@, RMul(Z(a.ol_missing), R(2, 100))),
                   !.expected_pass_rate = RSub(@, R(2, 100)),
                   !.pass_success = RSub(@, R(3, 100))]
    ELSE [f EXCEPT !.o_pass = RSub(@, RMul(Z(a.ol_missing), R(2, 100)))]

(* lines 363-366: opponent edge rushers missing *)
EdgeMissing(a, f) ==
    IF a.edge_missing >= 1
    THEN [f EXCEPT !.d_pass = RAdd(@, R(3, 100)),
                   !.o_pass = RAdd(@, R(3, 100)),
                   !.expected_pass_rate = RAdd(@, R(25, 1000))]
    ELSE f

(* lines 368-375: home field adjustment *)
HomeField(a, f) ==
    IF a.is_home
    THEN [f EXCEPT !.o_pass = RAdd(@, home_adj[a.home_strength]),
                   !.o_run = RAdd(@, home_adj[a.home_strength])]
    ELSE [f EXCEPT !.o_pass = RSub(@, home_adj[a.home_strength]),
                   !.o_run = RSub(@, home_adj[a.home_strength])]

(* faulty variant: the run rate taken from the uncapped pass rate *)
Rates_RunRateUncapped(f) ==
    [net_pass_epa |-> calculate_net_epa(f.o_pass, f.d_pass),
     net_run_epa |-> calculate_net_epa(f.o_run, f.d_run),
     final_pass_rate |-> RMax(R(35, 100), RMin(R(75, 100), f.expected_pass_rate)),
     final_run_rate |-> RSub(Z(1), f.expected_pass_rate)]

(* lines 377-383: net efficiency and the pass-rate cap *)
Rates(f) ==
    [net_pass_epa |-> calculate_net_epa(f.o_pass, f.d_pass),
     net_run_epa |-> calculate_net_epa(f.o_run, f.d_run),
     final_pass_rate |-> RMax(R(35, 100), RMin(R(75, 100), f.expected_pass_rate)),
     final_run_rate |-> RSub(Z(1), RMax(R(35, 100), RMin(R(75, 100), f.expected_pass_rate)))]

(* lines 385-386, 392: the blends by the capped rates *)
Blend(f, r) ==
    [total_matchup_epa |-> RAdd(RMul(r.final_pass_rate, r.net_pass_epa),
                                RMul(r.final_run_rate, r.net_run_epa)),
     expected_pass_attempts |-> RMul(r.final_pass_rate, f.expected_plays),
     blended_success |-> RAdd(RMul(r.final_pass_rate, f.pass_success),
                              RMul(r.final_run_rate, f.run_success))]

(* lines 389, 393: base score and success-rate adjustment (weight = 55) *)
Score(a, f, b) ==
    [base_score |-> RMul(RAdd(a.pts_per_play_base, b.total_matchup_epa), f.expected_plays),
     success_adjustment |-> calculate_success_rate_adjustment(b.blended_success,
                                R(46, 100), Z(55))]

(* the adjusted locals of project_team_score after line 375 *)
Adjusted(a) == HomeField(a, EdgeMissing(a, OlMissing(a, EliteWrOut(a, QbOut(a, Weighted(a))))))

Result(f, r, b, s) ==
    [exc |-> "none",
     score |-> RAdd(s.base_score, s.success_adjustment),
     pass_rate |-> r.final_pass_rate,
     plays |-> f.expected_plays,
     pass_attempts |-> b.expected_pass_attempts,
     matchup_epa |-> b.total_matchup_epa,
     success_rate |-> b.blended_success,
     success_adjustment |-> s.success_adjustment]

Scored(a, f, r, b) == Result(f, r, b, Score(a, f, b))
Blended(a, f, r) == Scored(a, f, r, Blend(f, r))
Projected(a, f) == Blended(a, f, Rates(f))

Raise(e) ==
    [exc |-> e, score |-> NoneV, pass_rate |-> NoneV, plays |-> NoneV,
     pass_attempts |-> NoneV, matchup_epa |-> NoneV, success_rate |-> NoneV,
     success_adjustment |-> NoneV]

project_team_score(a) ==
    IF Raises(a) # "none" THEN Raise(Raises(a)) ELSE Projected(a, Adjusted(a))

-----------------------------------------------------------------------------
(* Inputs of the function-level specification.                             *)

MaxGames == 17
MaxInjured == 3
MaxOmitted == 1
MaxLen == 3

Neutral ==
    [pass_rate |-> R(60, 100), proe |-> Z(0), pace |-> Z(64),
     def_pass_rate_against |-> R(60, 100),
     season_pass_epa |-> R(10, 100), last5_pass_epa |-> R(50, 100),
     season_run_epa |-> R(-5, 100), last5_run_epa |-> R(5, 100),
     season_pass_success |-> R(46, 100), last5_pass_success |-> R(50, 100),
     season_run_success |-> R(43, 100), last5_run_success |-> R(40, 100),
     def_season_pass_epa |-> R(5, 100), def_last5_pass_epa |-> R(-10, 100),
     def_season_run_epa |-> Z(0), def_last5_run_epa |-> R(-5, 100)]

PassHeavy ==
    [pass_rate |-> R(72, 100), proe |-> R(6, 100), pace |-> Z(68),
     def_pass_rate_against |-> R(66, 100),
     season_pass_epa |-> R(20, 100), last5_pass_epa |-> R(10, 100),
     season_run_epa |-> R(-10, 100), last5_run_epa |-> Z(0),
     season_pass_success |-> R(50, 100), last5_pass_success |-> R(48, 100),
     season_run_success |-> R(40, 100), last5_run_success |-> R(42, 100),
     def_season_pass_epa |-> R(10, 100), def_last5_pass_epa |-> R(20, 100),
     def_season_run_epa |-> R(5, 100), def_last5_run_epa |-> Z(0)]

RunHeavy ==
    [pass_rate |-> R(42, 100), proe |-> R(-6, 100), pace |-> Z(60),
     def_pass_rate_against |-> R(52, 100),
     season_pass_epa |-> R(-10, 100), last5_pass_epa |-> R(-20, 100),
     season_run_epa |-> R(10, 100), last5_run_epa |-> R(20, 100),
     season_pass_success |-> R(40, 100), last5_pass_success |-> R(42, 100),
     season_run_success |-> R(46, 100), last5_run_success |-> R(48, 100),
     def_season_pass_epa |-> R(-10, 100), def_last5_pass_epa |-> R(-5, 100),
     def_season_run_epa |-> R(-5, 100), def_last5_run_epa |-> R(-10, 100)]

Records == {Neutral, PassHeavy, RunHeavy}

Omit(rec, K) == [k \in DOMAIN rec \ K |-> rec[k]]
With(rec, k, v) == [x \in DOMAIN rec \cup {k} |-> IF x = k THEN v ELSE rec[x]]

StatKeys == TeamKeys \cup OppKeys
Omissions == {K \in SUBSET StatKeys : Cardinality(K) <= MaxOmitted}

(* the pace field of a record: key absent, None, 0 or a positive pace *)
PaceVariants(rec) ==
    {Omit(rec, {"pace"}), With(rec, "pace", NoneV), With(rec, "pace", Z(0)), rec}

Spreads == {Z(-10), Z(-7), R(-13, 2), Z(-4), Z(-3), Z(0), Z(3), R(7, 2), Z(4), Z(7), R(19, 2), Z(10)}

PArgs(ts, os, home, tg, og, spread, qb, wr, ol, edge, hs, po, opo, dpo) ==
    [team_stats |-> ts, opp_stats |-> os, is_home |-> home,
     team_games_played |-> tg, opp_games_played |-> og, spread |-> spread,
     qb_out |-> qb, elite_wr_out |-> wr, ol_missing |-> ol, edge_missing |-> edge,
     pts_per_play_base |-> R(365, 1000), league_avg_pass_rate |-> R(60, 100),
     home_strength |-> hs, pace_override |-> po, opp_pace_override |-> opo,
     def_pass_rate_override |-> dpo]

InjuryCalls ==
    {PArgs(ts, os, home, 8, 8, spread, qb, wr, ol, edge, "average", NoneV, NoneV, NoneV) :
        ts \in Records, os \in {PassHeavy, RunHeavy}, home \in BOOLEAN,
        spread \in {Z(-7), Z(-4), Z(0), Z(4), Z(7)}, qb \in BOOLEAN,
        wr \in 0..MaxInjured, ol \in 0..MaxInjured, edge \in 0..MaxInjured}

PaceCalls ==
    {PArgs(ts, os, TRUE, 3, 3, spread, FALSE, 0, 0, 0, "average", po, opo, dpo) :
        ts \in PaceVariants(Neutral), os \in PaceVariants(PassHeavy),
        spread \in Spreads, po \in {NoneV, Z(0), Z(70)}, opo \in {NoneV, Z(0), R(133, 2)},
        dpo \in {NoneV, R(55, 100)}}

OmissionCalls ==
    {PArgs(Omit(Neutral, K1), Omit(RunHeavy, K2), FALSE, 12, 16, Z(0), FALSE, 0, 0, 0,
           "average", NoneV, NoneV, dpo) :
        K1 \in Omissions, K2 \in Omissions,
        dpo \in {NoneV, R(58, 100)}}

GamesCalls ==
    {PArgs(Neutral, PassHeavy, home, tg, og, Z(3), FALSE, 0, 0, 0, hs, NoneV, NoneV, NoneV) :
        home \in BOOLEAN, tg \in 0..MaxGames, og \in 0..MaxGames,
        hs \in {"weak", "average", "strong"}}

ProjectCalls == InjuryCalls \cup PaceCalls \cup OmissionCalls \cup GamesCalls

WeightedCalls ==
    [season_epa : {R(10, 100), R(-20, 100), R(46, 100)},
     last_5_epa : {R(50, 100), R(-10, 100), R(43, 100)},
     games_played : (-2)..(MaxGames + 2)]

PassRateCalls ==
    [team_pass_rate : {R(60, 100), R(45, 100), R(70, 100)},
     proe : {Z(0), R(5, 100), R(-5, 100)},
     def_pass_rate_against : {R(60, 100), R(66, 100), R(50, 100)},
     league_avg_pass_rate : {R(60, 100), R(58, 100)},
     spread : Spreads]

WeatherCalls ==
    [wind_mph : {Z(0), R(19, 2), Z(10), Z(14), Z(15), Z(19), Z(20), Z(35)},
     temp_f : {Z(-5), R(-1, 2), Z(0), Z(32), Z(70)},
     precipitation : {"none", "light_rain", "heavy_rain", "light_snow", "heavy_snow",
                      "blizzard", "hail"}]

Alphabet == {"6", "2", ".", "%", " ", "-", "n", "a"}
RECURSIVE StringsUpTo(_)
StringsUpTo(k) ==
    IF k = 0 THEN {<<>>}
    ELSE LET shorter == StringsUpTo(k - 1)
         IN  shorter \cup {Append(x, c) : x \in shorter, c \in Alphabet}

Tokens ==
    {<<"n", "/", "a">>, <<"N", "/", "A">>, <<"n", "o", "n", "e">>, <<"N", "o", "n", "e">>,
     <<"N", "A">>, <<" ", "n", "a", " ">>, <<"4", "8", ".", "5", "%">>, <<"0", ".", "4", "8">>,
     <<" ", "6", "2", "%", " ">>, <<"6", "2", " ", "%">>, <<"1", "5", "0">>, <<"1", ".", "0">>,
     <<"1", ".", "0", "1">>, <<"-", "3", ".", "5">>, <<"+", "3", ".", "5">>,
     <<"a", "b", "c">>, <<"4", "8", "p", "c", "t">>, <<"1", "0", "0", "%">>}

RawValues ==
    {PyNone} \cup {PyStr(x) : x \in StringsUpTo(MaxLen) \cup Tokens}
      \cup {PyNum(x) : x \in {Z(0), R(48, 100), Z(1), R(3, 2), Z(48), Z(62), Z(-3)}}

ParseCalls == [value : RawValues, is_percentage : BOOLEAN]

-----------------------------------------------------------------------------
(* Function-level specification: Init draws one call (a function and its   *)
(* arguments), the action of that function applies it.                     *)

Idle == <<"idle">>

InitGameIdle ==
    /\ files = Idle /\ teams = Idle /\ inp = Idle
    /\ projA = Idle /\ projB = Idle /\ out = Idle /\ gpc = "idle"

Init ==
    /\ pc = "call"
    /\ ret = NoneV
    /\ \/ fn = "calculate_weighted_epa" /\ args \in WeightedCalls
       \/ fn = "calculate_expected_pass_rate" /\ args \in PassRateCalls
       \/ fn = "calculate_weather_adjustment" /\ args \in WeatherCalls
       \/ fn = "parse_value" /\ args \in ParseCalls
       \/ fn = "project_team_score" /\ args \in ProjectCalls
    /\ InitGameIdle

Return(v) == ret' = v /\ pc' = "done" /\ UNCHANGED <<fn, args>> /\ UNCHANGED gameVars

CallWeightedEpa ==
    /\ pc = "call" /\ fn = "calculate_weighted_epa"
    /\ Return(calculate_weighted_epa(args.season_epa, args.last_5_epa, args.games_played))

CallExpectedPassRate ==
    /\ pc = "call" /\ fn = "calculate_expected_pass_rate"
    /\ Return(calculate_expected_pass_rate(args.team_pass_rate, args.proe,
                  args.def_pass_rate_against, args.league_avg_pass_rate, args.spread))

CallWeatherAdjustment ==
    /\ pc = "call" /\ fn = "calculate_weather_adjustment"
    /\ Return(calculate_weather_adjustment(args.wind_mph, args.temp_f, args.precipitation))

CallParseValue ==
    /\ pc = "call" /\ fn = "parse_value"
    /\ Return(parse_value(args.value, args.is_percentage))

CallProjectTeamScore ==
    /\ pc = "call" /\ fn = "project_team_score"
    /\ Return(project_team_score(args))

Next ==
    \/ CallWeightedEpa
    \/ CallExpectedPassRate
    \/ CallWeatherAdjustment
    \/ CallParseValue
    \/ CallProjectTeamScore

Spec == Init /\ [][Next]_vars

-----------------------------------------------------------------------------
(* Ingestion.  A statistics source is [exists, rows]: whether the file is  *)
(* on disk and the rows csv.DictReader yields, each a dict from column     *)
(* name to cell.  A team cell is a team identifier without surrounding     *)
(* whitespace (a TLA+ string, "" when blank); every other cell is a str.   *)
(* A loader returns [none, d]: None, or the dict d.                        *)

NoneDict == [none |-> TRUE, d |-> <<>>]
Dict(d) == [none |-> FALSE, d |-> d]
Falsy(x) == x.none \/ DOMAIN x.d = {}

TeamCols == <<"Team", "team", "Abbr", "abbr">>

(* lines 151-155 and 197-201: the first team column holding a value *)
TeamOf(row) ==
    LET hits == {i \in 1..Len(TeamCols) : TeamCols[i] \in DOMAIN row /\ row[TeamCols[i]] # ""}
    IN  IF hits = {} THEN ""
        ELSE row[TeamCols[CHOOSE i \in hits : \A j \in hits : i <= j]]

(* row.get(k1, row.get(k2, ... 0)): the first column present, else the int 0 *)
GetFirst(row, keys) ==
    LET hits == {i \in 1..Len(keys) : keys[i] \in DOMAIN row}
    IN  IF hits = {} THEN PyNum(Z(0))
        ELSE PyStr(row[keys[CHOOSE i \in hits : \A j \in hits : i <= j]])

(* row.get(k1) or row.get(k2) or ...: the first non-empty cell, else the   *)
(* last operand (None or '')                                               *)
GetOr(row, keys) ==
    LET hits == {i \in 1..Len(keys) : keys[i] \in DOMAIN row /\ row[keys[i]] # <<>>}
    IN  IF hits # {} THEN PyStr(row[keys[CHOOSE i \in hits : \A j \in hits : i <= j]])
        ELSE IF keys[Len(keys)] \in DOMAIN row THEN PyStr(<<>>) ELSE PyNone

TendencyRecord(row) ==
    [pass_rate |-> parse_value(GetFirst(row, <<"Pass Rate", "pass_rate">>), TRUE),
     proe |-> parse_value(GetFirst(row, <<"PROE", "proe">>), TRUE),
     pace |-> parse_value(GetFirst(row, <<"Pace", "pace">>), FALSE),
     def_pass_rate_against |->
         parse_value(GetFirst(row, <<"Opp Pass Rate", "opp_pass_rate", "Def Pass Rate Against">>),
                     TRUE)]

RECURSIVE TendencyRows(_)
TendencyRows(rows) ==
    IF rows = <<>> THEN <<>>
    ELSE LET before == TendencyRows(SubSeq(rows, 1, Len(rows) - 1))
             row == rows[Len(rows)]
         IN  IF TeamOf(row) # "" THEN (TeamOf(row) :> TendencyRecord(row)) @@ before
             ELSE before

load_team_tendencies(csv_file) ==
    IF ~csv_file.exists THEN NoneDict ELSE Dict(TendencyRows(csv_file.rows))

team_aliases(team) ==
    CASE team = "LA" -> "LAR" [] team = "WSH" -> "WAS" [] OTHER -> team

RbsdmRecord(row) ==
    [dropback_epa |-> parse_value(GetOr(row, <<"Dropback EPA", "dropback_epa", "Dropback", "dropback">>), FALSE),
     dropback_sr |-> parse_value(GetOr(row, <<"Dropback SR", "dropback_sr", "Success R Dropback", "Dropback Success Rate">>), TRUE),
     rush_epa |-> parse_value(GetOr(row, <<"Rush EPA", "rush_epa", "Rush", "rush">>), FALSE),
     rush_sr |-> parse_value(GetOr(row, <<"Rush SR", "rush_sr", "Rush Success Rate">>), TRUE)]

RECURSIVE RbsdmRows(_)
RbsdmRows(rows) ==
    IF rows = <<>> THEN <<>>
    ELSE LET before == RbsdmRows(SubSeq(rows, 1, Len(rows) - 1))
             team == team_aliases(TeamOf(rows[Len(rows)]))
         IN  IF team # "" /\ team # "Team"
             THEN (team :> RbsdmRecord(rows[Len(rows)])) @@ before
             ELSE before

load_rbsdm_stats(csv_file) ==
    IF ~csv_file.exists THEN NoneDict ELSE Dict(RbsdmRows(csv_file.rows))

Row(d, team) == IF team \in DOMAIN d THEN d[team] ELSE <<>>

MergedRecord(tend, off_s, off_l, def_s, def_l) ==
    [pass_rate |-> Get(tend, "pass_rate", R(60, 100)),
     proe |-> Get(tend, "proe", Z(0)),
     pace |-> Get(tend, "pace", NoneV),
     def_pass_rate_against |-> Get(tend, "def_pass_rate_against", NoneV),
     season_pass_epa |-> Get(off_s, "dropback_epa", Z(0)),
     last5_pass_epa |-> Get(off_l, "dropback_epa", Z(0)),
     season_run_epa |-> Get(off_s, "rush_epa", Z(0)),
     last5_run_epa |-> Get(off_l, "rush_epa", Z(0)),
     season_pass_success |-> Get(off_s, "dropback_sr", R(46, 100)),
     last5_pass_success |-> Get(off_l, "dropback_sr", R(46, 100)),
     season_run_success |-> Get(off_s, "rush_sr", R(43, 100)),
     last5_run_success |-> Get(off_l, "rush_sr", R(43, 100)),
     def_season_pass_epa |-> Get(def_s, "dropback_epa", Z(0)),
     def_last5_pass_epa |-> Get(def_l, "dropback_epa", Z(0)),
     def_season_run_epa |-> Get(def_s, "rush_epa", Z(0)),
     def_last5_run_epa |-> Get(def_l, "rush_epa", Z(0))]

merge_team_data(tendencies, off_season, off_l5, def_season, def_l5) ==
    IF Falsy(tendencies) \/ Falsy(off_season) \/ Falsy(off_l5) \/ Falsy(def_season) \/ Falsy(def_l5)
    THEN NoneDict
    ELSE Dict([team \in DOMAIN tendencies.d |->
                 MergedRecord(tendencies.d[team], Row(off_season.d, team), Row(off_l5.d, team),
                              Row(def_season.d, team), Row(def_l5.d, team))])

LoadTeams(fs) ==
    merge_team_data(load_team_tendencies(fs.pass), load_rbsdm_stats(fs.oszn),
                    load_rbsdm_stats(fs.ol5), load_rbsdm_stats(fs.dszn), load_rbsdm_stats(fs.dl5))

-----------------------------------------------------------------------------
(* get_game_projection: the interactive run, one action per block of       *)
(* prompts.  inp collects the values read so far.                          *)

a_pace_csv(t, i) == t.d[i.team_a_name]["pace"]
b_pace_csv(t, i) == t.d[i.team_b_name]["pace"]
a_def_csv(t, i) == t.d[i.team_a_name]["def_pass_rate_against"]
b_def_csv(t, i) == t.d[i.team_b_name]["def_pass_rate_against"]

(* "if not x or x == 0": None and 0.0 are both falsy *)
NeedsInput(x) == x = NoneV \/ x = Z(0)

Clamp017(n) == IF n < 0 THEN 0 ELSE IF n > 17 THEN 17 ELSE n

venue_map(venue_input) ==
    CASE venue_input = "1" -> "weak" [] venue_input = "2" -> "average"
      [] venue_input = "3" -> "strong" [] OTHER -> "average"

precip_map(precip_input) ==
    CASE precip_input = "1" -> "none" [] precip_input = "2" -> "light_rain"
      [] precip_input = "3" -> "heavy_rain" [] precip_input = "4" -> "light_snow"
      [] precip_input = "5" -> "blizzard" [] OTHER -> "none"

(* lines 537-545: the call projecting team A *)
CallA(t, i) ==
    PArgs(t.d[i.team_a_name], t.d[i.team_b_name], i.team_a_home, i.gp_a, i.gp_b,
          i.spread, i.a_qb_out, i.a_wr_out, i.a_ol_out, i.b_edge_out, i.venue_strength,
          i.a_pace, i.b_pace, i.b_def_pass_rate)

(* faulty variant: team B projected with the spread as entered *)
CallB_SameSpread(t, i) ==
    PArgs(t.d[i.team_b_name], t.d[i.team_a_name], i.team_b_home, i.gp_b, i.gp_a,
          i.spread, i.b_qb_out, i.b_wr_out, i.b_ol_out, i.a_edge_out, i.venue_strength,
          i.b_pace, i.a_pace, i.a_def_pass_rate)

(* lines 547-555: the call projecting team B *)
CallB(t, i) ==
    PArgs(t.d[i.team_b_name], t.d[i.team_a_name], i.team_b_home, i.gp_b, i.gp_a,
          RNeg(i.spread), i.b_qb_out, i.b_wr_out, i.b_ol_out, i.a_edge_out, i.venue_strength,
          i.b_pace, i.a_pace, i.a_def_pass_rate)

(* faulty variant: the weather penalty taken off each team's score *)
Totals_PerTeamWeather(a, b, weather_adjustment) ==
    [base_total |-> RAdd(a.score, b.score),
     weather_adjusted_total |-> RSub(RSub(RAdd(a.score, b.score), weather_adjustment),
                                     weather_adjustment)]

(* lines 557-558 *)
Totals(a, b, weather_adjustment) ==
    [base_total |-> RAdd(a.score, b.score),
     weather_adjusted_total |-> RSub(RAdd(a.score, b.score), weather_adjustment)]

(* lines 584-600: the betting insights printed *)
Insights(a, b, weather_adjustment, total) ==
    (IF RGe(total, Z(48)) THEN {"HIGH-SCORING GAME"}
     ELSE IF RLe(total, Z(40)) THEN {"LOW-SCORING GAME"} ELSE {})
    \cup (IF RGe(RAdd(a.pass_attempts, b.pass_attempts), Z(80)) THEN {"HIGH PASS VOLUME"} ELSE {})
    \cup (IF RGe(weather_adjustment, Z(3)) THEN {"WEATHER IMPACT"} ELSE {})
    \cup (IF RGe(RDiv(RAdd(a.success_rate, b.success_rate), Z(2)), R(48, 100))
          THEN {"HIGH SUCCESS RATES"}
          ELSE IF RLe(RDiv(RAdd(a.success_rate, b.success_rate), Z(2)), R(42, 100))
          THEN {"LOW SUCCESS RATES"} ELSE {})

Weeks == {1, 12}
NameInputs == {<<"ATL", "LAR">>, <<"LAR", "ATL">>, <<"ATL", "NYJ">>}
GpInputs == {<<<<>>, <<>>>>, <<<<20>>, <<7>>>>}
LocationInputs == {"1", "2", "3", "x"}
VenueInputs == {"", "3"}
SpreadInputs == {Z(-7), R(7, 2)}
ManualEntries ==
    {[a_pace |-> <<"6", "3">>, b_pace |-> <<>>,
      b_def |-> <<"6", "2">>, a_def |-> <<"0", ".", "5", "5">>],
     [a_pace |-> <<"0">>, b_pace |-> <<"6", "7", ".", "5">>,
      b_def |-> <<"6", "4", "%">>, a_def |-> <<>>]}
WeatherInputs ==
    {[is_dome |-> TRUE, wind |-> Z(0), temp |-> Z(70), precip_input |-> ""],
     [is_dome |-> FALSE, wind |-> Z(0), temp |-> Z(70), precip_input |-> ""],
     [is_dome |-> FALSE, wind |-> Z(12), temp |-> Z(40), precip_input |-> "2"],
     [is_dome |-> FALSE, wind |-> Z(20), temp |-> Z(-5), precip_input |-> "5"]}
InjuryInputs ==
    {[a_qb_out |-> FALSE, a_wr_out |-> 0, a_ol_out |-> 0, b_edge_out |-> 0,
      b_qb_out |-> FALSE, b_wr_out |-> 0, b_ol_out |-> 0, a_edge_out |-> 0],
     [a_qb_out |-> TRUE, a_wr_out |-> 1, a_ol_out |-> 0, b_edge_out |-> 0,
      b_qb_out |-> FALSE, b_wr_out |-> 0, b_ol_out |-> 2, a_edge_out |-> 1],
     [a_qb_out |-> FALSE, a_wr_out |-> 0, a_ol_out |-> 2, b_edge_out |-> 1,
      b_qb_out |-> TRUE, b_wr_out |-> 2, b_ol_out |-> 0, a_edge_out |-> 0]}

(* lines 414-438 *)
LoadData ==
    /\ gpc = "start"
    /\ teams' = LoadTeams(files)
    /\ gpc' = IF Falsy(LoadTeams(files)) THEN "exit" ELSE "setup"
    /\ UNCHANGED <<files, inp, projA, projB, out>> /\ UNCHANGED fnVars

(* lines 440-457 *)
GameSetup ==
    /\ gpc = "setup"
    /\ \E week \in Weeks, names \in NameInputs :
         IF names[1] \notin DOMAIN teams.d \/ names[2] \notin DOMAIN teams.d
         THEN /\ inp' = [week |-> week, team_a_name |-> names[1], team_b_name |-> names[2]]
              /\ gpc' = "exit"
         ELSE \E gp \in GpInputs :
                /\ inp' = [week |-> week, team_a_name |-> names[1], team_b_name |-> names[2],
                           gp_a |-> Clamp017(IF gp[1] = <<>> THEN Clamp017(week - 1) ELSE gp[1][1]),
                           gp_b |-> Clamp017(IF gp[2] = <<>> THEN Clamp017(week - 1) ELSE gp[2][1])]
                /\ gpc' = "location"
    /\ UNCHANGED <<files, teams, projA, projB, out>> /\ UNCHANGED fnVars

(* lines 459-471 *)
Location ==
    /\ gpc = "location"
    /\ \E location \in LocationInputs, venue_input \in VenueInputs, spread \in SpreadInputs :
         /\ (location \notin {"1", "2"}) => venue_input = ""
         /\ inp' = [location |-> location,
                    team_a_home |-> (location = "1"),
                    team_b_home |-> (location = "2"),
                    venue_strength |-> IF location \in {"1", "2"}
                                       THEN venue_map(IF venue_input = "" THEN "2" ELSE venue_input)
                                       ELSE "average",
                    spread |-> spread] @@ inp
    /\ gpc' = "manual"
    /\ UNCHANGED <<files, teams, projA, projB, out>> /\ UNCHANGED fnVars

(* lines 473-504 *)
ManualInputs ==
    /\ gpc = "manual"
    /\ \E m \in ManualEntries :
         inp' = [a_pace |-> IF NeedsInput(a_pace_csv(teams, inp))
                            THEN parse_value(PyStr(m.a_pace), FALSE) ELSE a_pace_csv(teams, inp),
                 b_pace |-> IF NeedsInput(b_pace_csv(teams, inp))
                            THEN parse_value(PyStr(m.b_pace), FALSE) ELSE b_pace_csv(teams, inp),
                 b_def_pass_rate |-> IF NeedsInput(b_def_csv(teams, inp))
                            THEN parse_value(PyStr(m.b_def), TRUE) ELSE b_def_csv(teams, inp),
                 a_def_pass_rate |-> IF NeedsInput(a_def_csv(teams, inp))
                            THEN parse_value(PyStr(m.a_def), TRUE) ELSE a_def_csv(teams, inp)] @@ inp
    /\ gpc' = "weather"
    /\ UNCHANGED <<files, teams, projA, projB, out>> /\ UNCHANGED fnVars

(* lines 506-521 *)
Weather ==
    /\ gpc = "weather"
    /\ \E w \in WeatherInputs :
         inp' = [is_dome |-> w.is_dome,
                 weather_adjustment |->
                     IF w.is_dome
                     THEN calculate_weather_adjustment(Z(0), Z(70), "none")
                     ELSE calculate_weather_adjustment(w.wind, w.temp,
                              precip_map(IF w.precip_input = "" THEN "1" ELSE w.precip_input))]
                @@ inp
    /\ gpc' = "injuries"
    /\ UNCHANGED <<files, teams, projA, projB, out>> /\ UNCHANGED fnVars

(* lines 523-534 *)
Injuries ==
    /\ gpc = "injuries"
    /\ \E j \in InjuryInputs : inp' = j @@ inp
    /\ gpc' = "project"
    /\ UNCHANGED <<files, teams, projA, projB, out>> /\ UNCHANGED fnVars

(* lines 536-555: an exception of either call ends the run *)
Project ==
    /\ gpc = "project"
    /\ \E ca \in {CallA(teams, inp)}, cb \in {CallB(teams, inp)} :
         \E pa \in {project_team_score(ca)}, pb \in {project_team_score(cb)} :
           /\ projA' = [call |-> ca, proj |-> pa]
           /\ projB' = IF pa.exc # "none" THEN Idle ELSE [call |-> cb, proj |-> pb]
           /\ gpc' = IF pa.exc # "none" \/ pb.exc # "none" THEN "raised" ELSE "output"
    /\ UNCHANGED <<files, teams, inp, out>> /\ UNCHANGED fnVars

(* lines 557-600 *)
Output ==
    /\ gpc = "output"
    /\ out' = [insights |-> Insights(projA.proj, projB.proj, inp.weather_adjustment,
                                Totals(projA.proj, projB.proj, inp.weather_adjustment).weather_adjusted_total)]
              @@ Totals(projA.proj, projB.proj, inp.weather_adjustment)
    /\ gpc' = "done"
    /\ UNCHANGED <<files, teams, inp, projA, projB>> /\ UNCHANGED fnVars

-----------------------------------------------------------------------------
(* The statistics sources on disk when the program starts: the complete    *)
(* set, and every set that differs from it in one source.                  *)

File(rows) == [exists |-> TRUE, rows |-> rows]
Missing == [exists |-> FALSE, rows |-> <<>>]

TendRow(team, pass_rate, proe, pace, opp) ==
    ("Team" :> team) @@ ("Pass Rate" :> pass_rate) @@ ("PROE" :> proe)
      @@ ("Pace" :> pace) @@ ("Opp Pass Rate" :> opp)

RbsdmRow(col, team, depa, dsr, repa, rsr) ==
    (col :> team) @@ ("Dropback EPA" :> depa) @@ ("Dropback SR" :> dsr)
      @@ ("Rush EPA" :> repa) @@ ("Rush SR" :> rsr)

Without(row, cols) == [c \in DOMAIN row \ cols |-> row[c]]
Blank(row, cols) == [c \in DOMAIN row |-> IF c \in cols THEN <<>> ELSE row[c]]

PassCsv ==
    <<TendRow("ATL", <<"6", "4", "%">>, <<"2", "%">>, <<"6", "4">>, <<"0", ".", "5", "8">>),
      TendRow("LAR", <<"0", ".", "6", "6">>, <<"-", "0", ".", "0", "2">>, <<"6", "6">>, <<"6", "2">>)>>

OsznCsv ==
    <<RbsdmRow("Team", "ATL", <<"0", ".", "1">>, <<"5", "2", "%">>, <<"-", "0", ".", "0", "5">>, <<"0", ".", "4", "4">>),
      RbsdmRow("Team", "LA", <<"0", ".", "2">>, <<"5", "4">>, <<"0">>, <<"4", "5", "%">>)>>
Ol5Csv ==
    <<RbsdmRow("Abbr", "ATL", <<"0", ".", "3">>, <<"5", "4", "%">>, <<"0", ".", "0", "5">>, <<"0", ".", "4", "4">>),
      RbsdmRow("Abbr", "LA", <<"0", ".", "1">>, <<"5", "2">>, <<"0", ".", "1">>, <<"4", "5", "%">>)>>
DsznCsv ==
    <<RbsdmRow("Team", "Team", <<"E", "P", "A">>, <<"S", "R">>, <<"E", "P", "A">>, <<"S", "R">>),
      RbsdmRow("Team", "ATL", <<"0", ".", "0", "5">>, <<"4", "6", "%">>, <<"0">>, <<"0", ".", "4">>),
      RbsdmRow("Team", "LAR", <<"-", "0", ".", "1">>, <<"4", "4">>, <<"-", "0", ".", "0", "5">>, <<"4", "0", "%">>)>>
Dl5Csv ==
    <<RbsdmRow("team", "ATL", <<"0", ".", "1">>, <<"4", "6", "%">>, <<"0", ".", "0", "5">>, <<"0", ".", "4">>),
      RbsdmRow("team", "LAR", <<"0">>, <<"4", "4">>, <<"-", "0", ".", "1">>, <<"4", "0", "%">>)>>

Complete ==
    [pass |-> File(PassCsv), oszn |-> File(OsznCsv), ol5 |-> File(Ol5Csv),
     dszn |-> File(DsznCsv), dl5 |-> File(Dl5Csv)]

SrCols == {"Dropback SR", "Rush SR"}
NoSr(rows) == [i \in 1..Len(rows) |-> Without(rows[i], SrCols)]
BlankSr(rows) == [i \in 1..Len(rows) |-> Blank(rows[i], SrCols)]
NoPace(rows) == [i \in 1..Len(rows) |-> Without(rows[i], {"Pace", "Opp Pass Rate"})]
NoPassRate(rows) == [i \in 1..Len(rows) |-> Without(rows[i], {"Pass Rate", "PROE"})]

PassVariants ==
    {Missing, File(<<>>), File(NoPace(PassCsv)), File(NoPassRate(PassCsv))}

RbsdmVariants(rows) ==
    {Missing, File(<<>>), File(SubSeq(rows, 1, Len(rows) - 1)),
     File(NoSr(rows)), File(BlankSr(rows))}

FileSets ==
    {Complete}
      \cup {[Complete EXCEPT !.pass = f] : f \in PassVariants}
      \cup {[Complete EXCEPT !.oszn = f] : f \in RbsdmVariants(OsznCsv)}
      \cup {[Complete EXCEPT !.ol5 = f] : f \in RbsdmVariants(Ol5Csv)}
      \cup {[Complete EXCEPT !.dszn = f] : f \in RbsdmVariants(DsznCsv)}
      \cup {[Complete EXCEPT !.dl5 = f] : f \in RbsdmVariants(Dl5Csv)}

InitGame ==
    /\ files \in FileSets
    /\ gpc = "start"
    /\ teams = Idle /\ inp = Idle /\ projA = Idle /\ projB = Idle /\ out = Idle
    /\ fn = "none" /\ args = Idle /\ ret = NoneV /\ pc = "idle"

NextGame ==
    \/ LoadData
    \/ GameSetup
    \/ Location
    \/ ManualInputs
    \/ Weather
    \/ Injuries
    \/ Project
    \/ Output

SpecGame == InitGame /\ [][NextGame]_vars

-----------------------------------------------------------------------------
(* Properties of the function-level specification.                         *)

Returned(f) == pc = "done" /\ fn = f
Projection == Returned("project_team_score") /\ ret.exc = "none"

(* the documented league-average defaults of the statistics fields *)
DocumentedDefault(k) ==
    CASE k = "pass_rate" -> R(60, 100)
      [] k \in {"season_pass_success", "last5_pass_success"} -> R(46, 100)
      [] k \in {"season_run_success", "last5_run_success"} -> R(43, 100)
      [] OTHER -> Z(0)
Defaulted(rec) ==
    [k \in DOMAIN rec \cup StatKeys |-> IF k \in DOMAIN rec THEN rec[k] ELSE DocumentedDefault(k)]

(* C1: whatever statistics fields the team and opponent records omit,      *)
(* project_team_score raises nothing and returns what it returns on the    *)
(* records with each omitted field set to its documented default.          *)
C1_OmittedFieldsDefault ==
    Returned("project_team_score") =>
        /\ ret.exc = "none"
        /\ ret = project_team_score([args EXCEPT !.team_stats = Defaulted(@),
                                                 !.opp_stats = Defaulted(@)])

InjuryPassRateShift(a) ==
    RAdd(RAdd(IF a.qb_out THEN R(-7, 100) ELSE Z(0),
              RMul(Z(a.elite_wr_out), R(-2, 100))),
         RAdd(IF a.ol_missing >= 2 THEN R(-2, 100) ELSE Z(0),
              IF a.edge_missing >= 1 THEN R(25, 1000) ELSE Z(0)))

UnclampedPassRate(a) ==
    RAdd(calculate_expected_pass_rate(a.team_stats["pass_rate"], a.team_stats["proe"],
             IF a.def_pass_rate_override # NoneV THEN a.def_pass_rate_override
             ELSE Get(a.opp_stats, "def_pass_rate_against", R(60, 100)),
             a.league_avg_pass_rate, a.spread),
         InjuryPassRateShift(a))

ClampOnce(x) == IF RLt(x, R(35, 100)) THEN R(35, 100)
                ELSE IF RGt(x, R(75, 100)) THEN R(75, 100) ELSE x

NetPass(a) == calculate_net_epa(Adjusted(a).o_pass, Adjusted(a).d_pass)
NetRun(a) == calculate_net_epa(Adjusted(a).o_run, Adjusted(a).d_run)

(* C2: the returned pass_rate is the unclamped expected pass rate plus all *)
(* injury adjustments, clamped once to [0.35, 0.75]; the run rate of the   *)
(* matchup_epa and success_rate blends is 1 - pass_rate; and               *)
(* pass_attempts = pass_rate * plays.                                      *)
C2_PassRateClampedOnce ==
    Projection =>
        /\ ret.pass_rate = ClampOnce(UnclampedPassRate(args))
        /\ RLe(R(35, 100), ret.pass_rate) /\ RLe(ret.pass_rate, R(75, 100))
        /\ ret.matchup_epa = RAdd(RMul(ret.pass_rate, NetPass(args)),
                                  RMul(RSub(Z(1), ret.pass_rate), NetRun(args)))
        /\ ret.success_rate = RAdd(RMul(ret.pass_rate, Adjusted(args).pass_success),
                                   RMul(RSub(Z(1), ret.pass_rate), Adjusted(args).run_success))
        /\ ret.pass_attempts = RMul(ret.pass_rate, ret.plays)

C2_Witness ==
    /\ Projection
    /\ args.qb_out /\ args.edge_missing >= 1
    /\ RGt(UnclampedPassRate(args), R(75, 100))
    /\ ret.pass_rate = R(75, 100)

(* C3: calculate_weighted_epa(s, r, g) is s for g <= 5, 0.65 s + 0.35 r    *)
(* for 6 <= g <= 10, 0.50 s + 0.50 r for 11 <= g <= 14 and                 *)
(* 0.40 s + 0.60 r for g >= 15.                                            *)
C3_RecencyBuckets ==
    Returned("calculate_weighted_epa") =>
        LET s == args.season_epa
            r == args.last_5_epa
            g == args.games_played
            mix(ws, wr) == RAdd(RMul(R(ws, 100), s), RMul(R(wr, 100), r))
        IN  /\ g <= 5 => ret = s
            /\ (6 <= g /\ g <= 10) => ret = mix(65, 35)
            /\ (11 <= g /\ g <= 14) => ret = mix(50, 50)
            /\ g >= 15 => ret = mix(40, 60)

C3_Witness ==
    /\ Returned("calculate_weighted_epa")
    /\ args.games_played = 6
    /\ args.season_epa = R(10, 100) /\ args.last_5_epa = R(50, 100)
    /\ ret = R(24, 100)

(* C4: with the is-percentage hint parse_value returns a decimal fraction  *)
(* in [0, 1] for every raw input, a numeric value above 1.0 being divided  *)
(* by 100.                                                                 *)
C4_PercentageIsFraction ==
    (Returned("parse_value") /\ args.is_percentage) =>
        /\ IsNum(ret) /\ RLe(Z(0), ret) /\ RLe(ret, Z(1))
        /\ (args.value.t = "num" /\ RGt(args.value.n, Z(1))) => ret = RDiv(args.value.n, Z(100))

ExpectedPace(override, rec) ==
    LET chosen == IF override # NoneV THEN override
                  ELSE IF "pace" \in DOMAIN rec THEN rec["pace"] ELSE Z(65)
    IN  IF chosen = NoneV \/ chosen = Z(0) THEN Z(62) ELSE chosen

SpreadPlays(spread) ==
    IF RLe(RAbs(spread), Z(3)) THEN Z(3)
    ELSE IF RGe(RAbs(spread), Z(10)) THEN Z(-4) ELSE Z(0)

(* C6: each pace entering the play-volume average is the override if       *)
(* provided, else the record's field, else 65.0, a pace of 0 or None being *)
(* replaced by 62.0; expected plays before injuries is the average of the  *)
(* two paces plus 3.0 for |spread| <= 3, minus 4.0 for |spread| >= 10.     *)
C6_PaceResolution ==
    Projection =>
        LET tp == ExpectedPace(args.pace_override, args.team_stats)
            op == ExpectedPace(args.opp_pace_override, args.opp_stats)
        IN  /\ tp # Z(0) /\ tp # NoneV /\ op # Z(0) /\ op # NoneV
            /\ RAdd(ret.plays, IF args.qb_out THEN Z(3) ELSE Z(0))
                 = RAdd(RDiv(RAdd(tp, op), Z(2)), SpreadPlays(args.spread))

C6_Witness ==
    /\ Projection
    /\ args.pace_override = Z(0) /\ "pace" \in DOMAIN args.team_stats
    /\ args.team_stats["pace"] = Z(64)
    /\ args.opp_pace_override = NoneV /\ "pace" \notin DOMAIN args.opp_stats
    /\ args.spread = Z(10)
    /\ ret.plays = RAdd(RDiv(RAdd(Z(62), Z(65)), Z(2)), Z(-4))

(* C8: calculate_weather_adjustment is non-negative and is the sum of a    *)
(* wind component (highest band only), a temperature component and a       *)
(* precipitation component.                                                *)
C8_WeatherComponents ==
    Returned("calculate_weather_adjustment") =>
        LET wind == args.wind_mph
            w == IF RGe(wind, Z(20)) THEN 6 ELSE IF RGe(wind, Z(15)) THEN 3
                 ELSE IF RGe(wind, Z(10)) THEN 1 ELSE 0
            t == IF RLt(args.temp_f, Z(0)) THEN 2 ELSE 0
            p == CASE args.precipitation = "heavy_rain" -> 3
                   [] args.precipitation = "light_snow" -> 2
                   [] args.precipitation = "heavy_snow" -> 4
                   [] args.precipitation = "blizzard" -> 8
                   [] OTHER -> 0
        IN  ret = Z(w + t + p) /\ RGe(ret, Z(0))

C8_Witness ==
    /\ Returned("calculate_weather_adjustment")
    /\ args.wind_mph = Z(20) /\ args.temp_f = Z(-5) /\ args.precipitation = "blizzard"
    /\ ret = Z(16)

(* C10: calculate_expected_pass_rate is                                    *)
(* 0.6 (pass_rate + proe) + 0.4 (pass_rate + def_pass_rate_against         *)
(* - league_avg) plus the spread step (+0.05 for spread >= 7, +0.03 for    *)
(* 4 <= spread < 7, -0.04 for spread <= -7, -0.02 for -7 < spread <= -4,   *)
(* else 0), unclamped.                                                     *)
C10_ExpectedPassRate ==
    Returned("calculate_expected_pass_rate") =>
        LET sp == args.spread
            step == IF RGe(sp, Z(7)) THEN R(5, 100)
                    ELSE IF RGe(sp, Z(4)) /\ RLt(sp, Z(7)) THEN R(3, 100)
                    ELSE IF RLe(sp, Z(-7)) THEN R(-4, 100)
                    ELSE IF RLt(Z(-7), sp) /\ RLe(sp, Z(-4)) THEN R(-2, 100)
                    ELSE Z(0)
            tendency == RMul(R(6, 10), RAdd(args.team_pass_rate, args.proe))
            defense == RMul(R(4, 10), RSub(RAdd(args.team_pass_rate, args.def_pass_rate_against),
                                           args.league_avg_pass_rate))
        IN  ret = RAdd(RAdd(tendency, defense), step)

C10_Witness ==
    /\ Returned("calculate_expected_pass_rate")
    /\ args.team_pass_rate = R(60, 100) /\ args.proe = Z(0)
    /\ args.def_pass_rate_against = R(60, 100) /\ args.league_avg_pass_rate = R(60, 100)
    /\ args.spread = Z(0)
    /\ ret = R(60, 100)

InjuryPassSuccessShift(a) ==
    RAdd(RAdd(IF a.qb_out THEN R(-5, 100) ELSE Z(0),
              RMul(Z(a.elite_wr_out), R(-2, 100))),
         IF a.ol_missing >= 2 THEN R(-3, 100) ELSE Z(0))

InjuryPassEpaShift(a) ==
    RAdd(RAdd(IF a.qb_out THEN R(-20, 100) ELSE Z(0),
              RMul(Z(a.elite_wr_out), R(-6, 100))),
         RAdd(RMul(Z(a.ol_missing), R(-2, 100)),
              IF a.edge_missing >= 1 THEN R(3, 100) ELSE Z(0)))

EdgeDefEpaShift(a) == IF a.edge_missing >= 1 THEN R(3, 100) ELSE Z(0)

HomeShift(a) == IF a.is_home THEN home_adj[a.home_strength] ELSE RNeg(home_adj[a.home_strength])

(* C11: the threshold injury adjustments are applied once whatever the     *)
(* count: pass rate -0.02 and pass success -0.03 for every ol_missing >= 2 *)
(* (none below 2); opponent defensive pass EPA +0.03, own pass EPA +0.03   *)
(* and pass rate +0.025 for every edge_missing >= 1 (none at 0); only the  *)
(* pass-EPA terms -0.06 elite_wr_out and -0.02 ol_missing and the receiver *)
(* pass-rate and success terms -0.02 elite_wr_out scale with the count.    *)
(* The returned pass_rate, success_rate and matchup_epa are those of       *)
(* exactly these shifts.                                                   *)
C11_ThresholdAdjustmentsOnce ==
    Projection =>
        /\ Adjusted(args).expected_pass_rate
             = RAdd(Weighted(args).expected_pass_rate, InjuryPassRateShift(args))
        /\ Adjusted(args).pass_success
             = RAdd(Weighted(args).pass_success, InjuryPassSuccessShift(args))
        /\ Adjusted(args).d_pass = RAdd(Weighted(args).d_pass, EdgeDefEpaShift(args))
        /\ Adjusted(args).o_pass
             = RAdd(RAdd(Weighted(args).o_pass, InjuryPassEpaShift(args)), HomeShift(args))
        /\ ret.pass_rate
             = ClampOnce(RAdd(Weighted(args).expected_pass_rate, InjuryPassRateShift(args)))
        /\ ret.success_rate
             = RAdd(RMul(ret.pass_rate,
                         RAdd(Weighted(args).pass_success, InjuryPassSuccessShift(args))),
                    RMul(RSub(Z(1), ret.pass_rate), Weighted(args).run_success))
        /\ ret.matchup_epa
             = RAdd(RMul(ret.pass_rate,
                         calculate_net_epa(
                             RAdd(RAdd(Weighted(args).o_pass, InjuryPassEpaShift(args)),
                                  HomeShift(args)),
                             RAdd(Weighted(args).d_pass, EdgeDefEpaShift(args)))),
                    RMul(RSub(Z(1), ret.pass_rate),
                         calculate_net_epa(RAdd(Weighted(args).o_run, HomeShift(args)),
                                           Weighted(args).d_run)))

C11_Witness ==
    /\ Projection
    /\ args.ol_missing = 3 /\ args.edge_missing = 2
    /\ ~args.qb_out /\ args.elite_wr_out = 0
    /\ ret.pass_rate = RAdd(Weighted(args).expected_pass_rate, R(5, 1000))
    /\ Adjusted(args).pass_success = RSub(Weighted(args).pass_success, R(3, 100))
    /\ Adjusted(args).d_pass = RAdd(Weighted(args).d_pass, R(3, 100))

OffenseBlend(a, season, last5) ==
    calculate_weighted_epa(a.team_stats[season], a.team_stats[last5], a.team_games_played)
DefenseBlend(a, season, last5) ==
    calculate_weighted_epa(a.opp_stats[season], a.opp_stats[last5], a.opp_games_played)

BlendsOf(w) == [offense |-> <<w.o_pass, w.o_run, w.pass_success, w.run_success>>,
                defense |-> <<w.d_pass, w.d_run>>]
OffenseBlends(a) == BlendsOf(Weighted(a)).offense
DefenseBlends(a) == BlendsOf(Weighted(a)).defense

(* C12: the recency bucket of each statistic is chosen by the games played *)
(* of the side that owns it: offensive pass/run EPA and pass/run success   *)
(* by team_games_played only, the opponent's defensive pass/run EPA        *)
(* allowed by opp_games_played only; changing opp_games_played changes no  *)
(* offensive or success-rate blend, changing team_games_played changes no  *)
(* defensive blend, and the returned success_rate and matchup_epa are      *)
(* those of these blends.                                                  *)
C12_OwnGamesPlayed ==
    Projection =>
        /\ OffenseBlends(args)
             = <<OffenseBlend(args, "season_pass_epa", "last5_pass_epa"),
                 OffenseBlend(args, "season_run_epa", "last5_run_epa"),
                 OffenseBlend(args, "season_pass_success", "last5_pass_success"),
                 OffenseBlend(args, "season_run_success", "last5_run_success")>>
        /\ DefenseBlends(args)
             = <<DefenseBlend(args, "def_season_pass_epa", "def_last5_pass_epa"),
                 DefenseBlend(args, "def_season_run_epa", "def_last5_run_epa")>>
        /\ \E base \in {BlendsOf(Weighted(args))} :
             \A g \in 0..MaxGames :
               /\ OffenseBlends([args EXCEPT !.opp_games_played = g]) = base.offense
               /\ DefenseBlends([args EXCEPT !.team_games_played = g]) = base.defense
        /\ ret.success_rate
             = RAdd(RMul(ret.pass_rate,
                         RAdd(OffenseBlend(args, "season_pass_success", "last5_pass_success"),
                              InjuryPassSuccessShift(args))),
                    RMul(RSub(Z(1), ret.pass_rate),
                         OffenseBlend(args, "season_run_success", "last5_run_success")))
        /\ ret.matchup_epa
             = RAdd(RMul(ret.pass_rate,
                         calculate_net_epa(
                             RAdd(RAdd(OffenseBlend(args, "season_pass_epa", "last5_pass_epa"),
                                       InjuryPassEpaShift(args)), HomeShift(args)),
                             RAdd(DefenseBlend(args, "def_season_pass_epa", "def_last5_pass_epa"),
                                  EdgeDefEpaShift(args)))),
                    RMul(RSub(Z(1), ret.pass_rate),
                         calculate_net_epa(
                             RAdd(OffenseBlend(args, "season_run_epa", "last5_run_epa"),
                                  HomeShift(args)),
                             DefenseBlend(args, "def_season_run_epa", "def_last5_run_epa"))))

C12_Witness ==
    /\ Projection
    /\ args.team_games_played = 3 /\ args.opp_games_played = 16
    /\ args.team_stats = Neutral /\ args.opp_stats = PassHeavy
    /\ Weighted(args).o_pass = R(10, 100)
    /\ Weighted(args).d_pass = R(16, 100)
    /\ ret.success_rate = RAdd(RMul(ret.pass_rate, R(46, 100)),
                               RMul(RSub(Z(1), ret.pass_rate), R(43, 100)))

QbIn(a) == [a EXCEPT !.qb_out = FALSE]

Unclamped(x) == RLe(R(35, 100), x) /\ RLe(x, R(75, 100))

(* C13: QB out is a fixed shift applied before net efficiency and before   *)
(* the clamp.  Against the identical call with qb_out false, the qb_out    *)
(* call has offensive pass EPA lower by exactly 0.20, weighted pass        *)
(* success lower by exactly 0.05 and plays lower by exactly 3.0; its       *)
(* pass_rate is the clamp of the other call's unclamped rate less 0.07,    *)
(* so lower by exactly 0.07 when neither pass rate is clamped.             *)
C13_QbOutFixedShift ==
    (Projection /\ args.qb_out) =>
        \E other \in {project_team_score(QbIn(args))} :
          /\ other.exc = "none"
          /\ Adjusted(args).o_pass = RSub(Adjusted(QbIn(args)).o_pass, R(20, 100))
          /\ Adjusted(args).pass_success = RSub(Adjusted(QbIn(args)).pass_success, R(5, 100))
          /\ ret.plays = RSub(other.plays, Z(3))
          /\ ret.pass_rate = ClampOnce(RSub(UnclampedPassRate(QbIn(args)), R(7, 100)))
          /\ (Unclamped(UnclampedPassRate(args)) /\ Unclamped(UnclampedPassRate(QbIn(args))))
               => ret.pass_rate = RSub(other.pass_rate, R(7, 100))
          /\ ret.matchup_epa
               = RAdd(RMul(ret.pass_rate,
                           calculate_net_epa(RSub(Adjusted(QbIn(args)).o_pass, R(20, 100)),
                                             Adjusted(QbIn(args)).d_pass)),
                      RMul(RSub(Z(1), ret.pass_rate),
                           calculate_net_epa(Adjusted(QbIn(args)).o_run,
                                             Adjusted(QbIn(args)).d_run)))

C13_Witness ==
    /\ Projection
    /\ args.qb_out /\ args.elite_wr_out = 0 /\ args.ol_missing = 0 /\ args.edge_missing = 0
    /\ args.team_stats = Neutral /\ args.opp_stats = PassHeavy /\ args.spread = Z(0)
    /\ project_team_score(QbIn(args)).pass_rate = R(624, 1000)
    /\ ret.pass_rate = R(554, 1000)
    /\ project_team_score(QbIn(args)).plays = Z(69)
    /\ ret.plays = Z(66)

-----------------------------------------------------------------------------
(* Properties of get_game_projection (SpecGame).                           *)

Projected2 == gpc \in {"output", "done"}

SwappedCalls ==
    /\ projA.call.spread = inp.spread
    /\ projB.call.spread = RNeg(inp.spread)
    /\ projA.call.team_stats = teams.d[inp.team_a_name]
    /\ projA.call.opp_stats = teams.d[inp.team_b_name]
    /\ projB.call.team_stats = teams.d[inp.team_b_name]
    /\ projB.call.opp_stats = teams.d[inp.team_a_name]
    /\ projA.call.team_games_played = inp.gp_a /\ projA.call.opp_games_played = inp.gp_b
    /\ projB.call.team_games_played = inp.gp_b /\ projB.call.opp_games_played = inp.gp_a

(* C5 as stated: the two calls of a game have opposite spread signs,       *)
(* swapped records and games-played counts, and opposite home/away roles:  *)
(* exactly one of them has is_home true, whatever the location choice.     *)
C5_OppositeRolesAlways ==
    Projected2 => SwappedCalls /\ (projA.call.is_home # projB.call.is_home)

(* C5 amended: opposite spread signs and swapped records and games-played  *)
(* counts for every location choice; team A is home exactly for choice 1   *)
(* and team B exactly for choice 2, so exactly one call has is_home true   *)
(* for choices 1 and 2 and neither has for 3 or any other choice.          *)
C5_RolesByLocation ==
    Projected2 =>
        /\ SwappedCalls
        /\ projA.call.is_home = (inp.location = "1")
        /\ projB.call.is_home = (inp.location = "2")
        /\ ~(projA.call.is_home /\ projB.call.is_home)

C5_Witness ==
    /\ gpc = "done"
    /\ inp.location = "2" /\ projB.call.is_home /\ ~projA.call.is_home
    /\ inp.spread = Z(-7) /\ projA.call.spread = Z(-7) /\ projB.call.spread = Z(7)
    /\ inp.gp_a = 17 /\ inp.gp_b = 7
    /\ projA.call.team_stats # projB.call.team_stats

(* where each merged statistic is read from: source and columns *)
StatSource(k) ==
    CASE k = "pass_rate" -> <<"pass", {"Pass Rate", "pass_rate"}>>
      [] k = "proe" -> <<"pass", {"PROE", "proe"}>>
      [] k = "season_pass_epa" -> <<"oszn", {"Dropback EPA", "dropback_epa", "Dropback", "dropback"}>>
      [] k = "last5_pass_epa" -> <<"ol5", {"Dropback EPA", "dropback_epa", "Dropback", "dropback"}>>
      [] k = "season_run_epa" -> <<"oszn", {"Rush EPA", "rush_epa", "Rush", "rush"}>>
      [] k = "last5_run_epa" -> <<"ol5", {"Rush EPA", "rush_epa", "Rush", "rush"}>>
      [] k = "season_pass_success" -> <<"oszn", {"Dropback SR", "dropback_sr", "Success R Dropback", "Dropback Success Rate"}>>
      [] k = "last5_pass_success" -> <<"ol5", {"Dropback SR", "dropback_sr", "Success R Dropback", "Dropback Success Rate"}>>
      [] k = "season_run_success" -> <<"oszn", {"Rush SR", "rush_sr", "Rush Success Rate"}>>
      [] k = "last5_run_success" -> <<"ol5", {"Rush SR", "rush_sr", "Rush Success Rate"}>>
      [] k = "def_season_pass_epa" -> <<"dszn", {"Dropback EPA", "dropback_epa", "Dropback", "dropback"}>>
      [] k = "def_last5_pass_epa" -> <<"dl5", {"Dropback EPA", "dropback_epa", "Dropback", "dropback"}>>
      [] k = "def_season_run_epa" -> <<"dszn", {"Rush EPA", "rush_epa", "Rush", "rush"}>>
      [] k = "def_last5_run_epa" -> <<"dl5", {"Rush EPA", "rush_epa", "Rush", "rush"}>>

TendencyTeams(fs) ==
    IF fs.pass.exists
    THEN {TeamOf(fs.pass.rows[i]) : i \in 1..Len(fs.pass.rows)} \ {""}
    ELSE {}

(* the statistic k of team cannot be read: its source is missing, has no   *)
(* row for the team, or the row has no non-blank cell in the columns of k  *)
Unreadable(fs, team, k) ==
    LET f == fs[StatSource(k)[1]]
        mine == {i \in 1..Len(f.rows) : team_aliases(TeamOf(f.rows[i])) = team}
    IN  \/ ~f.exists
        \/ mine = {}
        \/ \A i \in mine : \A c \in StatSource(k)[2] \cap DOMAIN f.rows[i] : f.rows[i][c] = <<>>

(* C7: whatever sources are missing or empty, whatever rows or statistics  *)
(* are absent, loading and merging yield a record for every team of the    *)
(* tendencies source, each unreadable statistic holding its                *)
(* league-average default.                                                 *)
C7_IngestionDefaults ==
    gpc # "start" =>
        \A team \in TendencyTeams(files) :
            /\ ~teams.none
            /\ team \in DOMAIN teams.d
            /\ \A k \in StatKeys :
                 Unreadable(files, team, k) => teams.d[team][k] = DocumentedDefault(k)

(* C9: the final total is scoreA + scoreB - weather penalty, the penalty   *)
(* subtracted once from the combined total and from neither team's score,  *)
(* and printing the insights leaves every score and total as computed.     *)
C9_FinalTotal ==
    gpc = "done" =>
        /\ out.base_total = RAdd(projA.proj.score, projB.proj.score)
        /\ out.weather_adjusted_total
             = RSub(RAdd(projA.proj.score, projB.proj.score), inp.weather_adjustment)
        /\ projA.proj.score = project_team_score(projA.call).score
        /\ projB.proj.score = project_team_score(projB.call).score

C9_Witness ==
    /\ gpc = "done"
    /\ inp.weather_adjustment = Z(16)
    /\ "WEATHER IMPACT" \in out.insights /\ "LOW-SCORING GAME" \in out.insights
    /\ RLt(out.weather_adjusted_total, out.base_total)
    /\ RGt(out.base_total, Z(40))

=============================================================================
